---- MODULE Spec2Model ----
(***************************************************************************)
(* A model of the three programs of lexos-command-upgrade-center:          *)
(*   - h100-inference-server.py: the Flask inference server,               *)
(*   - rasa/actions/actions.py: the Rasa dialogue action handlers,         *)
(*   - server/src/deploy-vision-models.py: the vision deployment script.   *)
(* The three programs share no state; each has its own specification       *)
(* (ServerSpec, ActionsSpec, DeploySpec) over its own variables.           *)
(***************************************************************************)
EXTENDS Integers, Sequences, FiniteSets, TLC

VARIABLES
    \* h100-inference-server.py
    GPU_AVAILABLE,   \* module global set by accelerator detection
    TEXT_MODELS,     \* keys of the module global dict TEXT_MODELS
    IMAGE_MODELS,    \* keys of the module global dict IMAGE_MODELS
    startup,         \* the three globals as they were when the module finished loading
    served,          \* how many requests app.run has dispatched so far
    request,         \* the request of the last handler invocation
    response,        \* what that invocation produced: a JSON body, or an exception
    \* rasa/actions/actions.py
    slots,           \* tracker: the slots the handlers set, slot name -> value
    lastRun,         \* the last handler run: its name, the tracker value it read, its streak
    http,            \* what the outbound HTTP call of that run met (NoCall when none was made)
    calls,           \* the outbound HTTP requests sent during that run, in order
    messages,        \* the texts given to dispatcher.utter_message during that run
    events,          \* the event list run() returned
    outcome,         \* "returned" or "raised": how run() ended
    \* server/src/deploy-vision-models.py
    gpu_available,   \* VisionModelDeployer.gpu_available
    pc,              \* where deploy_all is: the step it is in, "done", or how it ended early
    installed,       \* how many entries of dependencies the loop has installed
    sub,             \* how many operations of the current model step have been done
    api_written,     \* whether vision_api.py has been written
    log              \* what has happened so far, in order

serverVars == <<GPU_AVAILABLE, TEXT_MODELS, IMAGE_MODELS, startup, served, request, response>>

actionsVars == <<slots, lastRun, http, calls, messages, events, outcome>>

deployVars == <<gpu_available, pc, installed, sub, api_written, log>>

vars == <<serverVars, actionsVars, deployVars>>

(***************************************************************************)
(* Python values.  A value is a tagged record; a str is a sequence of      *)
(* fragments: a one-character string per character of data that the code   *)
(* inspects, and one element for each literal piece of a format string.    *)
(***************************************************************************)
NoneV == [t |-> "none"]
Str(s) == [t |-> "str", s |-> s]
IntV(n) == [t |-> "int", i |-> n]
BoolV(b) == [t |-> "bool", b |-> b]
ListV(l) == [t |-> "list", l |-> l]
DictV(d) == [t |-> "dict", d |-> d]

IsStr(v) == v.t = "str"
IsDict(v) == v.t = "dict"

\* bool(v): Python truthiness
Truthy(v) ==
    CASE v.t = "none" -> FALSE
      [] v.t = "bool" -> v.b
      [] v.t = "int"  -> v.i # 0
      [] v.t = "str"  -> Len(v.s) > 0
      [] v.t = "list" -> Len(v.l) > 0
      [] v.t = "dict" -> DOMAIN v.d # {}

Digit == <<"0", "1", "2", "3", "4", "5", "6", "7", "8", "9">>

RECURSIVE Decimal(_)
Decimal(n) == IF n < 10 THEN <<Digit[n + 1]>>
              ELSE Decimal(n \div 10) \o <<Digit[(n % 10) + 1]>>

\* format(v) inside an f-string: the fragments of str(v)
Format(v) ==
    CASE v.t = "str"  -> v.s
      [] v.t = "none" -> <<"None">>
      [] v.t = "bool" -> IF v.b THEN <<"True">> ELSE <<"False">>
      [] v.t = "int"  -> IF v.i < 0 THEN <<"-">> \o Decimal(0 - v.i) ELSE Decimal(v.i)
      [] OTHER        -> <<"<object>">>

IsSpace(c) == c \in {" ", "\t", "\n"}

\* len(s.split()): the number of maximal runs of non-whitespace characters
RECURSIVE CountWords(_)
CountWords(s) ==
    IF s = <<>> THEN 0
    ELSE LET n == Len(s)
             inWord == ~IsSpace(s[n])
             afterSpace == n = 1 \/ IsSpace(s[n - 1])
         IN CountWords(SubSeq(s, 1, n - 1))
              + (IF inWord /\ afterSpace THEN 1 ELSE 0)

\* d.get(k, default) on a dict
Get(d, k, default) == IF k \in DOMAIN d THEN d[k] ELSE default

Returned(body) == [status |-> "ok", body |-> body]
Raised(exc) == [status |-> "raised", exc |-> exc]

(***************************************************************************)
(* h100-inference-server.py                                                *)
(***************************************************************************)
MaxPromptLen == 2
MaxRequests == 3
DEFAULT_MAX_TOKENS == 1000

PromptChars == {"a", " "}

RECURSIVE StringsUpTo(_)
StringsUpTo(n) ==
    IF n = 0 THEN {<<>>}
    ELSE LET shorter == StringsUpTo(n - 1)
         IN shorter \cup {Append(s, c) : s \in {x \in shorter : Len(x) = n - 1}, c \in PromptChars}

\* the values a client may put under each key of the JSON body
FieldValues(k) ==
    CASE k = "prompt"     -> {Str(s) : s \in StringsUpTo(MaxPromptLen)} \cup {IntV(7), NoneV}
      [] k = "model"      -> {Str(<<"mythomax">>), NoneV}
      [] k = "max_tokens" -> {IntV(5)}

BodyKeys == {"prompt", "model", "max_tokens"}

AllFieldValues == UNION {FieldValues(k) : k \in BodyKeys}

\* request.json: None (JSON null, or no JSON body: there request.json is None or
\* itself raises, by Flask version; either way an exception leaves the handler),
\* a JSON array, or a JSON object
RequestData ==
    {NoneV, ListV(<<>>)}
      \cup {DictV(f) : f \in {g \in UNION {[D -> AllFieldValues] : D \in SUBSET BodyKeys} :
                                \A k \in DOMAIN g : g[k] \in FieldValues(k)}}

NoRequest == [path |-> "", data |-> NoneV]
NoResponse == [status |-> "none"]

\* load_text_models(): the dict it returns, as its set of keys
load_text_models(gpu) == {}

\* load_image_models(): the dict it returns, as its set of keys
load_image_models(gpu) == {}

\* list(d.keys()) if d else ['none_loaded'], as a set of names
ModelNames(models) == IF models # {} THEN models ELSE {"none_loaded"}

MOCK_TEXT_PREFIX == "[Mock H100 Response] I would generate text for: '"
PLACEHOLDER_URL == "https://via.placeholder.com/1024x1024/FF6B6B/FFFFFF?text=H100+GPU+Not+Available"

health_body(gpu, text, image) ==
    Returned([status        |-> Str(<<"ok">>),
              gpu_available |-> BoolV(gpu),
              models_loaded |-> BoolV(text # {} \/ image # {})])

generate_text_body(data, gpu) ==
    IF ~IsDict(data) THEN Raised("AttributeError")
    ELSE LET prompt     == Get(data.d, "prompt", Str(<<>>))
             model      == Get(data.d, "model", Str(<<"default">>))
             max_tokens == Get(data.d, "max_tokens", IntV(DEFAULT_MAX_TOKENS))
         IN IF ~gpu
            THEN IF ~IsStr(prompt) THEN Raised("AttributeError")
                 ELSE Returned(
                        [text        |-> Str(<<MOCK_TEXT_PREFIX>>
                                             \o Format(prompt) \o <<"' using model ">>
                                             \o Format(model)),
                         tokens_used |-> IntV(CountWords(prompt.s) * 2),
                         model       |-> model,
                         gpu_used    |-> BoolV(FALSE)])
            ELSE Returned(
                   [text        |-> Str(<<"Generated response for: ">> \o Format(prompt)),
                    tokens_used |-> max_tokens,
                    model       |-> model,
                    gpu_used    |-> BoolV(TRUE)])

generate_image_body(data, gpu) ==
    IF ~IsDict(data) THEN Raised("AttributeError")
    ELSE LET prompt == Get(data.d, "prompt", Str(<<>>))
             model  == Get(data.d, "model", Str(<<"stable-diffusion-2.1">>))
         IN IF ~gpu
            THEN Returned(
                   [image_url |-> Str(<<PLACEHOLDER_URL>>),
                    prompt    |-> prompt,
                    model     |-> model,
                    gpu_used  |-> BoolV(FALSE)])
            ELSE Returned(
                   [image_url |-> Str(<<"generated_image_url_here">>),
                    prompt    |-> prompt,
                    model     |-> model,
                    gpu_used  |-> BoolV(TRUE)])

list_models_body(gpu, text, image) ==
    Returned([text_models   |-> ModelNames(text),
              image_models  |-> ModelNames(image),
              gpu_available |-> BoolV(gpu)])

\* what the server answers to req when its globals are gpu, text, image
Respond(req, gpu, text, image) ==
    CASE req.path = "/health"         -> health_body(gpu, text, image)
      [] req.path = "/generate"       -> generate_text_body(req.data, gpu)
      [] req.path = "/generate-image" -> generate_image_body(req.data, gpu)
      [] req.path = "/models"         -> list_models_body(gpu, text, image)

\* module load: accelerator detection, then the two model loaders
ServerInit ==
    /\ GPU_AVAILABLE \in BOOLEAN
    /\ TEXT_MODELS = load_text_models(GPU_AVAILABLE)
    /\ IMAGE_MODELS = load_image_models(GPU_AVAILABLE)
    /\ startup = [gpu |-> GPU_AVAILABLE, text |-> TEXT_MODELS, image |-> IMAGE_MODELS]
    /\ served = 0
    /\ request = NoRequest
    /\ response = NoResponse

\* app.run: one more request is dispatched to its handler
Dispatch(req) ==
    /\ served < MaxRequests
    /\ served' = served + 1
    /\ request' = req
    /\ UNCHANGED <<actionsVars, deployVars>>

health ==
    /\ Dispatch([path |-> "/health", data |-> NoneV])
    /\ response' = health_body(GPU_AVAILABLE, TEXT_MODELS, IMAGE_MODELS)
    /\ UNCHANGED <<GPU_AVAILABLE, TEXT_MODELS, IMAGE_MODELS, startup>>

\* generate_text as it would be if it loaded the requested model into the global dict
generate_text_loading_model ==
    \E data \in RequestData :
        /\ Dispatch([path |-> "/generate", data |-> data])
        /\ response' = generate_text_body(data, GPU_AVAILABLE)
        /\ TEXT_MODELS' = TEXT_MODELS \cup {"default"}
        /\ UNCHANGED <<GPU_AVAILABLE, IMAGE_MODELS, startup>>

generate_text ==
    \E data \in RequestData :
        /\ Dispatch([path |-> "/generate", data |-> data])
        /\ response' = generate_text_body(data, GPU_AVAILABLE)
        /\ UNCHANGED <<GPU_AVAILABLE, TEXT_MODELS, IMAGE_MODELS, startup>>

generate_image ==
    \E data \in RequestData :
        /\ Dispatch([path |-> "/generate-image", data |-> data])
        /\ response' = generate_image_body(data, GPU_AVAILABLE)
        /\ UNCHANGED <<GPU_AVAILABLE, TEXT_MODELS, IMAGE_MODELS, startup>>

list_models ==
    /\ Dispatch([path |-> "/models", data |-> NoneV])
    /\ response' = list_models_body(GPU_AVAILABLE, TEXT_MODELS, IMAGE_MODELS)
    /\ UNCHANGED <<GPU_AVAILABLE, TEXT_MODELS, IMAGE_MODELS, startup>>

ServerNext ==
    \/ health
    \/ generate_text
    \/ generate_image
    \/ list_models


(***************************************************************************)
(* rasa/actions/actions.py                                                 *)
(* Emoji of the message literals are written as :name: (ASCII only).       *)
(***************************************************************************)
MaxTasks == 2

\* the slots the handlers set through SlotSet events; they persist between runs
SlotNames == {"conversation_mode", "auto_speak", "current_voice"}

\* the slots the handlers only read; the tracker of each run brings their values
InputSlots == {"task_name", "website_url", "voice_name", "app_type"}

TEXT_HI == <<"h", "i">>
TEXT_IMAGE == <<"G", "e", "n", "e", "r", "a", "t", "e", " ", "a", "n", " ", "i", "m", "a", "g", "e", " ", "o", "f", " ", "c", "a", "t">>
URL_BARE == <<"a", ".", "b">>
URL_HTTP == <<"h", "t", "t", "p", ":", "/", "/", "a", ".", "b">>
URL_HTTPS == <<"h", "t", "t", "p", "s", ":", "/", "/", "a", ".", "b">>

\* the values the tracker may hold for each slot when a handler is called
SlotValues(k) ==
    CASE k = "task_name"         -> {NoneV, Str(<<>>), Str(<<"b", "u", "y">>)}
      [] k = "website_url"       -> {NoneV, Str(<<>>), Str(URL_BARE), Str(URL_HTTP), Str(URL_HTTPS)}
      [] k = "conversation_mode" -> {NoneV, BoolV(TRUE), BoolV(FALSE), Str(<<"o", "n">>)}
      [] k = "auto_speak"        -> {NoneV, BoolV(TRUE), BoolV(FALSE)}
      [] k = "voice_name"        -> {NoneV, Str(<<"j", "o", "s", "h">>)}
      [] k = "current_voice"     -> {NoneV}
      [] k = "app_type"          -> {NoneV, Str(<<"r", "e", "a", "c", "t">>)}

AllSlotValues == UNION {SlotValues(k) : k \in SlotNames \cup InputSlots}

LatestTexts == {NoneV, Str(TEXT_HI), Str(TEXT_IMAGE)}

UPPER == <<"A", "B", "C", "D", "E", "F", "G", "H", "I", "J", "K", "L", "M", "N", "O", "P", "Q", "R", "S", "T", "U", "V", "W", "X", "Y", "Z">>
LOWER == <<"a", "b", "c", "d", "e", "f", "g", "h", "i", "j", "k", "l", "m", "n", "o", "p", "q", "r", "s", "t", "u", "v", "w", "x", "y", "z">>

\* c.lower()
LowerChar(c) ==
    IF \E i \in 1..Len(UPPER) : UPPER[i] = c
    THEN LOWER[CHOOSE i \in 1..Len(UPPER) : UPPER[i] = c]
    ELSE c

\* s.lower()
Lower(s) == [i \in 1..Len(s) |-> LowerChar(s[i])]

\* s.startswith(prefix)
StartsWith(s, prefix) ==
    /\ Len(s) >= Len(prefix)
    /\ SubSeq(s, 1, Len(prefix)) = prefix

\* s.replace(old, ''): every non-overlapping occurrence of old, left to right
RECURSIVE Remove(_, _)
Remove(s, old) ==
    IF Len(s) < Len(old) \/ s = <<>> THEN s
    ELSE IF StartsWith(s, old) THEN Remove(SubSeq(s, Len(old) + 1, Len(s)), old)
    ELSE <<s[1]>> \o Remove(Tail(s), old)

\* s.strip()
RECURSIVE Strip(_)
Strip(s) ==
    IF s = <<>> THEN s
    ELSE IF IsSpace(s[1]) THEN Strip(Tail(s))
    ELSE IF IsSpace(s[Len(s)]) THEN Strip(SubSeq(s, 1, Len(s) - 1))
    ELSE s

PREFIX_GENERATE == <<"g", "e", "n", "e", "r", "a", "t", "e", " ", "a", "n", " ", "i", "m", "a", "g", "e", " ", "o", "f">>
PREFIX_CREATE == <<"c", "r", "e", "a", "t", "e", " ", "a", " ", "p", "i", "c", "t", "u", "r", "e", " ", "o", "f">>
PREFIX_MAKE == <<"m", "a", "k", "e", " ", "a", "n", " ", "i", "m", "a", "g", "e", " ", "s", "h", "o", "w", "i", "n", "g">>

ORCHESTRATOR_TASKS == "http://localhost:3000/api/orchestrator/tasks"
BROWSER_NAVIGATE == "http://localhost:3000/api/browser-agent/navigate"
AI_CHAT == "http://localhost:3000/api/ai/chat"

\* response.json() when the body is not JSON: it raises ValueError
InvalidJson == [t |-> "invalid"]

TaskItems == {DictV([name |-> Str(<<"t">>), completed |-> BoolV(TRUE)]),
              DictV([name |-> Str(<<"u">>)]),
              IntV(5)}

RECURSIVE ListsUpTo(_)
ListsUpTo(n) ==
    IF n = 0 THEN {<<>>}
    ELSE LET shorter == ListsUpTo(n - 1)
         IN shorter \cup {Append(l, x) : l \in {y \in shorter : Len(y) = n - 1}, x \in TaskItems}

\* bodies the AI chat API may answer with: not JSON, null, a number, an array, objects
ChatBodies ==
    {InvalidJson, NoneV, IntV(5), ListV(<<>>), DictV(<<>>),
     DictV([result |-> Str(<<"p", "i", "c">>)]),
     DictV([result |-> NoneV]),
     DictV([error |-> Str(<<"n", "o">>)])}

\* bodies the orchestrator may answer GET /tasks with
TaskBodies ==
    {InvalidJson, NoneV, IntV(0), IntV(5), DictV(<<>>),
     DictV([error |-> Str(<<"n", "o">>)])}
      \cup {ListV(l) : l \in ListsUpTo(MaxTasks)}

\* what requests.get / requests.post meets: an exception, or a response
\* (not OK, or OK with one of bodies)
HttpOutcomes(bodies) ==
    {[kind |-> "error"], [kind |-> "response", ok |-> FALSE]}
      \cup {[kind |-> "response", ok |-> TRUE, json |-> b] : b \in bodies}

\* the handlers that never read the body meet one OK response
AnyBody == {DictV(<<>>)}

NoCall == [kind |-> "none"]

Post(url, json) == [method |-> "POST", url |-> url, json |-> json]
HttpGet(url) == [method |-> "GET", url |-> url]

SlotSet(key, value) == [event |-> "slot", name |-> key, value |-> value]

\* what one run of a handler did
Result(o, c, m, e) == [http |-> o, calls |-> c, messages |-> m, events |-> e, outcome |-> "returned"]
Escaped(o, c, m) == [http |-> o, calls |-> c, messages |-> m, events |-> <<>>, outcome |-> "raised"]

\* x.get(...) raises AttributeError unless x is a dict
HasGet(v) == IsDict(v)

\* ActionCreateTask.run as it would be if it sent the request again after a failure
ActionCreateTask_run_retrying(task_name, o) ==
    IF Truthy(task_name)
    THEN LET call == Post(ORCHESTRATOR_TASKS,
                          DictV([name |-> task_name, status |-> Str(<<"pending">>)]))
         IN IF o.kind = "error"
            THEN Result(o, <<call, call>>, <<Str(<<"I'm having trouble connecting to the task service.">>)>>, <<>>)
            ELSE IF o.ok
            THEN Result(o, <<call>>,
                        <<Str(<<":white_check_mark: Task '">> \o Format(task_name)
                              \o <<"' has been created!">>)>>, <<>>)
            ELSE Result(o, <<call, call>>, <<Str(<<"Sorry, I couldn't create the task. Please try again.">>)>>, <<>>)
    ELSE Result(NoCall, <<>>, <<Str(<<"What task would you like me to create?">>)>>, <<>>)

ActionCreateTask_run(task_name, o) ==
    IF Truthy(task_name)
    THEN LET call == Post(ORCHESTRATOR_TASKS,
                          DictV([name |-> task_name, status |-> Str(<<"pending">>)]))
         IN IF o.kind = "error"
            THEN Result(o, <<call>>, <<Str(<<"I'm having trouble connecting to the task service.">>)>>, <<>>)
            ELSE IF o.ok
            THEN Result(o, <<call>>,
                        <<Str(<<":white_check_mark: Task '">> \o Format(task_name)
                              \o <<"' has been created!">>)>>, <<>>)
            ELSE Result(o, <<call>>, <<Str(<<"Sorry, I couldn't create the task. Please try again.">>)>>, <<>>)
    ELSE Result(NoCall, <<>>, <<Str(<<"What task would you like me to create?">>)>>, <<>>)

\* the body of the for loop: one line of the task list
TaskLine(task) ==
    (IF Truthy(Get(task.d, "completed", NoneV))
     THEN <<":white_check_mark:">> ELSE <<":hourglass:">>)
      \o <<" ">> \o Format(Get(task.d, "name", NoneV)) \o <<"\n">>

RECURSIVE TaskLines(_)
TaskLines(tasks) ==
    IF tasks = <<>> THEN <<>> ELSE TaskLine(Head(tasks)) \o TaskLines(Tail(tasks))

\* iterating tasks and calling task.get on each element goes through
Listable(tasks) ==
    /\ tasks.t = "list"
    /\ \A i \in 1..Len(tasks.l) : HasGet(tasks.l[i])

ActionListTasks_run(o) ==
    LET call == HttpGet(ORCHESTRATOR_TASKS)
        failed == Result(o, <<call>>, <<Str(<<"I couldn't retrieve your tasks right now.">>)>>, <<>>)
    IN IF o.kind = "error" THEN failed
       ELSE IF ~o.ok THEN Result(o, <<call>>, <<>>, <<>>)
       ELSE IF o.json = InvalidJson THEN failed
       ELSE IF ~Truthy(o.json)
       THEN Result(o, <<call>>,
                   <<Str(<<"You don't have any tasks yet. Would you like to create one?">>)>>, <<>>)
       ELSE IF ~Listable(o.json) THEN failed
       ELSE Result(o, <<call>>,
                   <<Str(<<":clipboard: Your current tasks:\n">> \o TaskLines(o.json.l))>>, <<>>)

PROTOCOL_HTTP == <<"h", "t", "t", "p", ":", "/", "/">>
PROTOCOL_HTTPS == <<"h", "t", "t", "p", "s", ":", "/", "/">>

\* the URL with a protocol ensured
\* EnsureProtocol as it would be without the startswith test
EnsureProtocol_always_prepending(url) == PROTOCOL_HTTPS \o url

EnsureProtocol(url) ==
    IF ~(StartsWith(url, PROTOCOL_HTTP) \/ StartsWith(url, PROTOCOL_HTTPS))
    THEN PROTOCOL_HTTPS \o url
    ELSE url

ActionBrowseWebsite_run(website_url, o) ==
    IF Truthy(website_url)
    THEN IF ~IsStr(website_url) THEN Escaped(NoCall, <<>>, <<>>)
         ELSE LET url == Str(EnsureProtocol(website_url.s))
                  call == Post(BROWSER_NAVIGATE, DictV([url |-> url]))
              IN IF o.kind = "error"
                 THEN Result(o, <<call>>, <<Str(<<"The browser service isn't available right now.">>)>>, <<>>)
                 ELSE IF o.ok
                 THEN Result(o, <<call>>,
                             <<Str(<<":globe: I've opened ">> \o url.s
                                   \o <<" for you. You can see it in the browser panel.">>)>>, <<>>)
                 ELSE Result(o, <<call>>, <<Str(<<"I had trouble opening that website.">>)>>, <<>>)
    ELSE Result(NoCall, <<>>, <<Str(<<"Which website would you like me to browse?">>)>>, <<>>)

\* ActionToggleConversationMode.run as it would be without the negation
ActionToggleConversationMode_run_unnegated(current_mode) ==
    LET new_mode == BoolV(Truthy(current_mode))
    IN Result(NoCall, <<>>, <<>>, <<SlotSet("conversation_mode", new_mode)>>)

ActionToggleConversationMode_run(current_mode) ==
    LET new_mode == BoolV(~Truthy(current_mode))
    IN Result(NoCall, <<>>, <<>>, <<SlotSet("conversation_mode", new_mode)>>)

ActionToggleAutoSpeak_run(current_setting) ==
    LET new_setting == BoolV(~Truthy(current_setting))
    IN Result(NoCall, <<>>, <<>>, <<SlotSet("auto_speak", new_setting)>>)

ActionChangeVoice_run(voice_name) ==
    IF Truthy(voice_name)
    THEN Result(NoCall, <<>>,
                <<Str(<<"I've switched to the ">> \o Format(voice_name) \o <<" voice.">>)>>,
                <<SlotSet("current_voice", voice_name)>>)
    ELSE Result(NoCall, <<>>,
                <<Str(<<"Which voice would you like me to use? Available: rachel, josh, bella, adam, sam">>)>>,
                <<>>)

ActionAIResponse_run(user_message, o) ==
    LET call == Post(AI_CHAT,
                     DictV([prompt     |-> user_message,
                            model      |-> Str(<<"auto">>),
                            task_type  |-> Str(<<"general">>),
                            complexity |-> Str(<<"medium">>),
                            quality    |-> Str(<<"standard">>)]))
        failed == Result(o, <<call>>,
                         <<Str(<<"I'm experiencing some technical difficulties. Please try again later.">>)>>, <<>>)
    IN IF o.kind = "error" THEN failed
       ELSE IF ~o.ok
       THEN Result(o, <<call>>, <<Str(<<"I'm having trouble thinking right now. Please try again.">>)>>, <<>>)
       ELSE IF o.json = InvalidJson \/ ~HasGet(o.json) THEN failed
       ELSE Result(o, <<call>>,
                   <<Get(o.json.d, "result", Str(<<"I apologize, but I couldn't generate a response.">>))>>,
                   <<>>)

\* the image description extracted from the user message
ImagePrompt(text) ==
    Strip(Remove(Remove(Remove(Lower(text), PREFIX_GENERATE), PREFIX_CREATE), PREFIX_MAKE))

ActionGenerateImage_run(user_message, o) ==
    IF ~IsStr(user_message) THEN Escaped(NoCall, <<>>, <<>>)
    ELSE LET prompt == Str(ImagePrompt(user_message.s))
             call == Post(AI_CHAT,
                          DictV([prompt     |-> prompt,
                                 task_type  |-> Str(<<"image">>),
                                 complexity |-> Str(<<"medium">>),
                                 quality    |-> Str(<<"standard">>)]))
             failed == Result(o, <<call>>, <<Str(<<"The image generation service is unavailable.">>)>>, <<>>)
         IN IF o.kind = "error" THEN failed
            ELSE IF ~o.ok
            THEN Result(o, <<call>>, <<Str(<<"I couldn't generate the image right now.">>)>>, <<>>)
            ELSE IF o.json = InvalidJson \/ ~HasGet(o.json) THEN failed
            ELSE Result(o, <<call>>,
                        <<Str(<<":art: Here's your image:\n\n">>
                              \o Format(Get(o.json.d, "result", Str(<<>>))))>>, <<>>)

ActionAnalyzeDocument_run ==
    Result(NoCall, <<>>,
           <<Str(<<":page_facing_up: Please upload your document using the paperclip button, and I'll analyze it for you.">>)>>,
           <<>>)

ActionBuildApp_run(app_type) ==
    IF Truthy(app_type)
    THEN Result(NoCall, <<>>,
                <<Str(<<":rocket: I'll help you build a ">> \o Format(app_type)
                      \o <<" app! Let me open DeepAgent for you...">>)>>, <<>>)
    ELSE Result(NoCall, <<>>,
                <<Str(<<"What type of app would you like to build? (e.g., react, python, web, mobile)">>)>>,
                <<>>)

\* the tracker after the returned events: each SlotSet sets its slot
RECURSIVE ApplyEvents(_, _)
ApplyEvents(s, evs) ==
    IF evs = <<>> THEN s
    ELSE ApplyEvents([s EXCEPT ![Head(evs).name] = Head(evs).value], Tail(evs))

\* the conversation so far: any slot values, any latest message; no handler has run
ActionsInit ==
    /\ slots \in {f \in [SlotNames -> AllSlotValues] : \A k \in SlotNames : f[k] \in SlotValues(k)}
    /\ lastRun = [action |-> "", read |-> NoneV, streak |-> 0]
    /\ http = NoCall
    /\ calls = <<>>
    /\ messages = <<>>
    /\ events = <<>>
    /\ outcome = "none"

\* the action server ran handler name, which read the tracker value read and did r:
\* the dispatcher's messages and the returned events go back, the events are applied
Run(name, read, r) ==
    /\ lastRun' = [action |-> name, read |-> read,
                   streak |-> IF lastRun.action = name THEN 2 ELSE 1]
    /\ http' = r.http
    /\ calls' = r.calls
    /\ messages' = r.messages
    /\ events' = r.events
    /\ outcome' = r.outcome
    /\ slots' = ApplyEvents(slots, r.events)

ActionCreateTask ==
    \E task_name \in SlotValues("task_name"), o \in HttpOutcomes(AnyBody) :
        /\ Run("action_create_task", task_name, ActionCreateTask_run(task_name, o))
        /\ UNCHANGED <<serverVars, deployVars>>

ActionListTasks ==
    \E o \in HttpOutcomes(TaskBodies) :
        /\ Run("action_list_tasks", NoneV, ActionListTasks_run(o))
        /\ UNCHANGED <<serverVars, deployVars>>

ActionBrowseWebsite ==
    \E website_url \in SlotValues("website_url"), o \in HttpOutcomes(AnyBody) :
        /\ Run("action_browse_website", website_url, ActionBrowseWebsite_run(website_url, o))
        /\ UNCHANGED <<serverVars, deployVars>>

MaxStemLen == 2

UrlChars == {"a", "/"}

RECURSIVE UrlStemsUpTo(_)
UrlStemsUpTo(n) ==
    IF n = 0 THEN {<<>>}
    ELSE LET shorter == UrlStemsUpTo(n - 1)
         IN shorter \cup {Append(s, c) : s \in {x \in shorter : Len(x) = n - 1}, c \in UrlChars}

\* how a website_url may begin: nothing, the two protocols, and near misses
UrlHeads ==
    {<<>>, PROTOCOL_HTTP, PROTOCOL_HTTPS,
     <<"h", "t", "t", "p", ":", "/">>, <<"H", "T", "T", "P", ":", "/", "/">>, <<"f", "t", "p", ":", "/", "/">>, <<"x", "h", "t", "t", "p", ":", "/", "/">>}

\* the website_url slot values of the tracker: unset, or any head before any stem
WebsiteUrls ==
    {NoneV} \cup {Str(h \o t) : h \in UrlHeads, t \in UrlStemsUpTo(MaxStemLen)}

\* the url the last run forwarded, which a later run may find in the slot
Forwarded ==
    IF lastRun.action = "action_browse_website" /\ calls # <<>>
    THEN {calls[1].json.d.url} ELSE {}

\* ActionBrowseWebsite run on any website_url
ActionBrowseAnyWebsite ==
    \E website_url \in WebsiteUrls \cup Forwarded, o \in HttpOutcomes(AnyBody) :
        /\ Run("action_browse_website", website_url, ActionBrowseWebsite_run(website_url, o))
        /\ UNCHANGED <<serverVars, deployVars>>

ActionToggleConversationMode ==
    /\ Run("action_toggle_conversation_mode", slots["conversation_mode"],
           ActionToggleConversationMode_run(slots["conversation_mode"]))
    /\ UNCHANGED <<serverVars, deployVars>>

ActionToggleAutoSpeak ==
    /\ Run("action_toggle_auto_speak", slots["auto_speak"],
           ActionToggleAutoSpeak_run(slots["auto_speak"]))
    /\ UNCHANGED <<serverVars, deployVars>>

ActionChangeVoice ==
    \E voice_name \in SlotValues("voice_name") :
        /\ Run("action_change_voice", voice_name, ActionChangeVoice_run(voice_name))
        /\ UNCHANGED <<serverVars, deployVars>>

ActionAIResponse ==
    \E user_message \in LatestTexts, o \in HttpOutcomes(ChatBodies) :
        /\ Run("action_ai_response", user_message, ActionAIResponse_run(user_message, o))
        /\ UNCHANGED <<serverVars, deployVars>>

ActionGenerateImage ==
    \E user_message \in LatestTexts, o \in HttpOutcomes(ChatBodies) :
        /\ Run("action_generate_image", user_message, ActionGenerateImage_run(user_message, o))
        /\ UNCHANGED <<serverVars, deployVars>>

ActionAnalyzeDocument ==
    /\ Run("action_analyze_document", NoneV, ActionAnalyzeDocument_run)
    /\ UNCHANGED <<serverVars, deployVars>>

ActionBuildApp ==
    \E app_type \in SlotValues("app_type") :
        /\ Run("action_build_app", app_type, ActionBuildApp_run(app_type))
        /\ UNCHANGED <<serverVars, deployVars>>

ActionsNext ==
    \/ ActionCreateTask
    \/ ActionListTasks
    \/ ActionBrowseWebsite
    \/ ActionToggleConversationMode
    \/ ActionToggleAutoSpeak
    \/ ActionChangeVoice
    \/ ActionAIResponse
    \/ ActionGenerateImage
    \/ ActionAnalyzeDocument
    \/ ActionBuildApp

(***************************************************************************)
(* server/src/deploy-vision-models.py                                      *)
(***************************************************************************)
dependencies ==
    <<"torch torchvision torchaudio --index-url https://download.pytorch.org/whl/cu118",
      "transformers>=4.36.0", "accelerate", "bitsandbytes",
      "easyocr", "python-doctr[torch]", "kraken", "paddlepaddle-gpu", "paddleocr",
      "opencv-python", "pillow", "albumentations",
      "decord", "av",
      "huggingface-hub", "gradio", "fastapi", "uvicorn">>

\* the steps of deploy_all, in the order it calls them
STEPS == <<"install_dependencies", "deploy_qwen_vl", "deploy_ocr_stack",
           "deploy_edge_models", "create_unified_api">>

MODEL_STEPS == {"deploy_qwen_vl", "deploy_ocr_stack", "deploy_edge_models"}

\* the step deploy_all calls after step
NextStep(step) ==
    CASE step = "install_dependencies" -> "deploy_qwen_vl"
      [] step = "deploy_qwen_vl"       -> "deploy_ocr_stack"
      [] step = "deploy_ocr_stack"     -> "deploy_edge_models"
      [] step = "deploy_edge_models"   -> "create_unified_api"
      [] step = "create_unified_api"   -> "done"

Download(what) == [kind |-> "download", what |-> what]
Save(what) == [kind |-> "save", what |-> what]
Import(what) == [kind |-> "import", what |-> what]

Dtype(gpu) == IF gpu THEN "float16" ELSE "float32"

\* the operations of each model step that may raise, in program order
Operations(step, gpu) ==
    CASE step = "deploy_qwen_vl" ->
           <<Import("transformers"),
             Download("Qwen/Qwen2-VL-7B-Instruct tokenizer"),
             Download("Qwen/Qwen2-VL-7B-Instruct model " \o Dtype(gpu)),
             Save("qwen2-vl model"),
             Save("qwen2-vl tokenizer")>>
      [] step = "deploy_ocr_stack" ->
           <<Download("easyocr.Reader"),
             Download("doctr ocr_predictor"),
             Download("PaddleOCR")>>
      [] step = "deploy_edge_models" ->
           <<Import("transformers"),
             Download("openbmb/MiniCPM-V-2 tokenizer"),
             Download("openbmb/MiniCPM-V-2 model " \o Dtype(gpu)),
             Save("minicpm-v model"),
             Save("minicpm-v tokenizer")>>

\* log entries
Begin(step) == [ev |-> "begin", step |-> step]
Finished(step) == [ev |-> "end", step |-> step]
LoggedError(step) == [ev |-> "logger.error", step |-> step]
Uncaught(step) == [ev |-> "uncaught", step |-> step]
Pip(dep, ok) == [ev |-> "pip", dep |-> dep, ok |-> ok]
Did(step, op) == [ev |-> "op", step |-> step, op |-> op]

\* VisionModelDeployer(): the accelerator is detected, nothing has run
DeployInit ==
    /\ gpu_available \in BOOLEAN
    /\ pc = "start"
    /\ installed = 0
    /\ sub = 0
    /\ api_written = FALSE
    /\ log = <<>>

\* deploy_all is called and calls install_dependencies
deploy_all ==
    /\ pc = "start"
    /\ pc' = "install_dependencies"
    /\ log' = Append(log, Begin("install_dependencies"))
    /\ UNCHANGED <<gpu_available, installed, sub, api_written, serverVars, actionsVars>>

\* one iteration of the loop: subprocess.run(pip install dep, check=True) succeeds
install_dependency ==
    /\ pc = "install_dependencies"
    /\ installed < Len(dependencies)
    /\ installed' = installed + 1
    /\ log' = Append(log, Pip(dependencies[installed + 1], TRUE))
    /\ UNCHANGED <<gpu_available, pc, sub, api_written, serverVars, actionsVars>>

\* install_dependency_fails as it would be if deploy_all caught and logged the
\* failure of install_dependencies the way it does for the model steps
install_dependency_fails_caught ==
    /\ pc = "install_dependencies"
    /\ installed < Len(dependencies)
    /\ pc' = NextStep(pc)
    /\ sub' = 0
    /\ log' = log \o <<Pip(dependencies[installed + 1], FALSE), LoggedError(pc), Begin(NextStep(pc))>>
    /\ UNCHANGED <<gpu_available, installed, api_written, serverVars, actionsVars>>

\* one iteration of the loop: pip exits non-zero, check=True raises
\* CalledProcessError, which nothing in deploy_all catches
install_dependency_fails ==
    /\ pc = "install_dependencies"
    /\ installed < Len(dependencies)
    /\ pc' = "aborted"
    /\ log' = log \o <<Pip(dependencies[installed + 1], FALSE), Uncaught("install_dependencies")>>
    /\ UNCHANGED <<gpu_available, installed, sub, api_written, serverVars, actionsVars>>

\* the loop is over: install_dependencies returns and deploy_all enters the first try
install_dependencies ==
    /\ pc = "install_dependencies"
    /\ installed = Len(dependencies)
    /\ pc' = NextStep(pc)
    /\ sub' = 0
    /\ log' = log \o <<Finished(pc), Begin(NextStep(pc))>>
    /\ UNCHANGED <<gpu_available, installed, api_written, serverVars, actionsVars>>

\* what entering the step after step adds to the log
Enter(step) == IF step = "done" THEN <<>> ELSE <<Begin(step)>>

\* the next operation of model step pc goes through
operation_succeeds ==
    /\ pc \in MODEL_STEPS
    /\ sub < Len(Operations(pc, gpu_available))
    /\ sub' = sub + 1
    /\ log' = Append(log, Did(pc, Operations(pc, gpu_available)[sub + 1]))
    /\ UNCHANGED <<gpu_available, pc, installed, api_written, serverVars, actionsVars>>

\* operation_raises as it would be without the try/except around the model steps
operation_raises_uncaught ==
    /\ pc \in MODEL_STEPS
    /\ sub < Len(Operations(pc, gpu_available))
    /\ pc' = "aborted"
    /\ log' = Append(log, Uncaught(pc))
    /\ UNCHANGED <<gpu_available, installed, sub, api_written, serverVars, actionsVars>>

\* the next operation of model step pc raises an Exception: the except clause
\* (of deploy_all, or of deploy_edge_models itself) logs it and deploy_all goes on
operation_raises ==
    /\ pc \in MODEL_STEPS
    /\ sub < Len(Operations(pc, gpu_available))
    /\ pc' = NextStep(pc)
    /\ sub' = 0
    /\ log' = log \o <<LoggedError(pc)>>
                  \o (IF pc = "deploy_edge_models" THEN <<Finished(pc)>> ELSE <<>>)
                  \o Enter(NextStep(pc))
    /\ UNCHANGED <<gpu_available, installed, api_written, serverVars, actionsVars>>

\* model step pc has done all its operations and returns
step_returns ==
    /\ pc \in MODEL_STEPS
    /\ sub = Len(Operations(pc, gpu_available))
    /\ pc' = NextStep(pc)
    /\ sub' = 0
    /\ log' = log \o <<Finished(pc)>> \o Enter(NextStep(pc))
    /\ UNCHANGED <<gpu_available, installed, api_written, serverVars, actionsVars>>

\* create_unified_api writes vision_api.py
create_unified_api ==
    /\ pc = "create_unified_api"
    /\ pc' = "done"
    /\ api_written' = TRUE
    /\ log' = log \o <<Did(pc, Save("vision_api.py")), Finished(pc)>>
    /\ UNCHANGED <<gpu_available, installed, sub, serverVars, actionsVars>>

\* create_unified_api cannot open vision_api.py: the OSError is not caught
create_unified_api_fails ==
    /\ pc = "create_unified_api"
    /\ pc' = "aborted"
    /\ log' = Append(log, Uncaught(pc))
    /\ UNCHANGED <<gpu_available, installed, sub, api_written, serverVars, actionsVars>>

DeployNext ==
    \/ deploy_all
    \/ install_dependency
    \/ install_dependency_fails
    \/ install_dependencies
    \/ operation_succeeds
    \/ operation_raises
    \/ step_returns
    \/ create_unified_api
    \/ create_unified_api_fails

(***************************************************************************)
(* Specifications: each program runs alone, the others not started         *)
(***************************************************************************)
ServerNotStarted ==
    /\ GPU_AVAILABLE = FALSE
    /\ TEXT_MODELS = {}
    /\ IMAGE_MODELS = {}
    /\ startup = [gpu |-> FALSE, text |-> {}, image |-> {}]
    /\ served = 0
    /\ request = NoRequest
    /\ response = NoResponse

ActionsNotStarted ==
    /\ slots = [k \in SlotNames |-> NoneV]
    /\ lastRun = [action |-> "", read |-> NoneV, streak |-> 0]
    /\ http = NoCall
    /\ calls = <<>>
    /\ messages = <<>>
    /\ events = <<>>
    /\ outcome = "none"

DeployNotStarted ==
    /\ gpu_available = FALSE
    /\ pc = "start"
    /\ installed = 0
    /\ sub = 0
    /\ api_written = FALSE
    /\ log = <<>>

ServerStart == ServerInit /\ ActionsNotStarted /\ DeployNotStarted

ActionsStart == ActionsInit /\ ServerNotStarted /\ DeployNotStarted

DeployStart == DeployInit /\ ServerNotStarted /\ ActionsNotStarted

ServerSpec == ServerStart /\ [][ServerNext]_vars

ActionsSpec == ActionsStart /\ [][ActionsNext]_vars

DeploySpec == DeployStart /\ [][DeployNext]_vars

BrowseStart == ActionsNotStarted /\ ServerNotStarted /\ DeployNotStarted

BrowseNext == ActionBrowseAnyWebsite

\* ActionBrowseWebsite alone, run again and again on any website_url
BrowseSpec == BrowseStart /\ [][BrowseNext]_vars

\* the script is one sequential process: while a step can be taken, one is taken
DeployFairSpec == DeploySpec /\ WF_vars(DeployNext)

(***************************************************************************)
(* Claims about the inference server (checked under ServerSpec)            *)
(***************************************************************************)
IsGenerate == request.path \in {"/generate", "/generate-image"}

IsMockBody(path, body) ==
    IF path = "/generate"
    THEN body.text.s[1] = MOCK_TEXT_PREFIX
    ELSE body.image_url = Str(<<PLACEHOLDER_URL>>)

\* the value the request carries under key k, or default when the key is absent
Requested(k, default) ==
    IF IsDict(request.data) /\ k \in DOMAIN request.data.d
    THEN request.data.d[k] ELSE default

DefaultModel == IF request.path = "/generate" THEN Str(<<"default">>)
                ELSE Str(<<"stable-diffusion-2.1">>)

\* C1: every request to /generate and /generate-image is answered with
\* gpu_used equal to GPU_AVAILABLE (the value /health and /models report) and
\* with the mock/placeholder body exactly when GPU_AVAILABLE is false.
C1_BranchFollowsDetection ==
    /\ IsGenerate =>
          /\ response.status = "ok"
          /\ response.body.gpu_used = BoolV(GPU_AVAILABLE)
          /\ IsMockBody(request.path, response.body) <=> ~GPU_AVAILABLE
    /\ request.path \in {"/health", "/models"} =>
          /\ response.status = "ok"
          /\ response.body.gpu_available = BoolV(GPU_AVAILABLE)

\* C1 on the requests the handlers do answer: the branch follows detection.
C1_BranchOnReturned ==
    (IsGenerate /\ response.status = "ok") =>
        /\ response.body.gpu_used = BoolV(GPU_AVAILABLE)
        /\ IsMockBody(request.path, response.body) <=> ~GPU_AVAILABLE

\* C2: whatever the body of a request to /generate or /generate-image (missing,
\* not an object, fields absent, prompt not a string), no exception escapes
\* the handler and every absent field takes its default.
C2_MalformedFallsBack ==
    IsGenerate =>
        /\ response.status = "ok"
        /\ response.body.model = Requested("model", DefaultModel)
        /\ request.path = "/generate-image" =>
              response.body.prompt = Requested("prompt", Str(<<>>))
        /\ (request.path = "/generate" /\ GPU_AVAILABLE) =>
              response.body.tokens_used = Requested("max_tokens", IntV(DEFAULT_MAX_TOKENS))

ExpectedKeys(path) ==
    CASE path = "/health"         -> {"status", "gpu_available", "models_loaded"}
      [] path = "/generate"       -> {"text", "tokens_used", "model", "gpu_used"}
      [] path = "/generate-image" -> {"image_url", "prompt", "model", "gpu_used"}
      [] path = "/models"         -> {"text_models", "image_models", "gpu_available"}

\* C3: every endpoint answers every request with a JSON object whose key set is
\* the documented one, whatever the branch and the request, and the model (and
\* for /generate-image the prompt) is the requested value or its default.
C3_FixedKeys ==
    request # NoRequest =>
        /\ response.status = "ok"
        /\ DOMAIN response.body = ExpectedKeys(request.path)
        /\ IsGenerate => response.body.model = Requested("model", DefaultModel)
        /\ request.path = "/generate-image" =>
              response.body.prompt = Requested("prompt", Str(<<>>))

\* C3 on the requests the handlers do answer: the key set is the documented one.
C3_KeysOnReturned ==
    response.status = "ok" =>
        /\ DOMAIN response.body = ExpectedKeys(request.path)
        /\ IsGenerate => response.body.model = Requested("model", DefaultModel)
        /\ request.path = "/generate-image" =>
              response.body.prompt = Requested("prompt", Str(<<>>))

\* C7: no request changes GPU_AVAILABLE, TEXT_MODELS or IMAGE_MODELS, and the
\* answer to a request after any sequence of requests is the answer the server
\* would give to it as the first request after startup.
C7_Stateless ==
    /\ GPU_AVAILABLE = startup.gpu
    /\ TEXT_MODELS = startup.text
    /\ IMAGE_MODELS = startup.image
    /\ served > 0 => response = Respond(request, startup.gpu, startup.text, startup.image)

\* a third request, to /health, answered after two requests to /generate
C7_Witness ==
    /\ served = 3
    /\ request.path = "/health"
    /\ response.status = "ok"
    /\ response.body.models_loaded = BoolV(FALSE)

(***************************************************************************)
(* Claims about the dialogue action handlers (checked under ActionsSpec)   *)
(***************************************************************************)
Forwarding == {"action_create_task", "action_list_tasks", "action_browse_website",
               "action_ai_response", "action_generate_image"}

NeverCalling == {"action_toggle_conversation_mode", "action_toggle_auto_speak",
                 "action_change_voice", "action_analyze_document", "action_build_app"}

Toggles == {"action_toggle_conversation_mode", "action_toggle_auto_speak"}

HasRun == lastRun.action # ""

\* the outbound call raised, or was answered with a non-OK status
CallFailed == http.kind = "error" \/ (http.kind = "response" /\ ~http.ok)

\* the outbound call was answered OK with a body that is not of the expected shape
BadBody ==
    /\ http.kind = "response" /\ http.ok
    /\ \/ http.json = InvalidJson
       \/ lastRun.action \in {"action_ai_response", "action_generate_image"} /\ ~IsDict(http.json)
       \/ lastRun.action = "action_list_tasks" /\ Truthy(http.json) /\ ~Listable(http.json)

\* the static strings the handlers say after a failure
Apologies ==
    {Str(<<"I'm having trouble connecting to the task service.">>),
     Str(<<"Sorry, I couldn't create the task. Please try again.">>),
     Str(<<"I couldn't retrieve your tasks right now.">>),
     Str(<<"The browser service isn't available right now.">>),
     Str(<<"I had trouble opening that website.">>),
     Str(<<"I'm experiencing some technical difficulties. Please try again later.">>),
     Str(<<"I'm having trouble thinking right now. Please try again.">>),
     Str(<<"The image generation service is unavailable.">>),
     Str(<<"I couldn't generate the image right now.">>)}

\* C4: whatever the handler, the outcome of its outbound call and the tracker
\* (slot set or unset, message text present or absent), run() returns an event
\* list, no exception propagates, and a failure is answered with one static
\* apology through the dispatcher.
C4_FailuresAreCaught ==
    HasRun =>
        /\ outcome = "returned"
        /\ (CallFailed \/ BadBody) => (Len(messages) = 1 /\ messages[1] \in Apologies)

\* the part of C4 that says no exception propagates out of run()
C4_NoExceptionEscapes == HasRun => outcome = "returned"

\* C5: every run of a handler that forwards to the remote API that returns has
\* called dispatcher.utter_message exactly once, also when the downstream call
\* was answered with a non-OK status.
C5_RepliesExactlyOnce ==
    (lastRun.action \in Forwarding /\ outcome = "returned") => Len(messages) = 1

\* C6: a handler run sends at most one outbound request and sends none again
\* after a failed or non-OK call; ActionCreateTask and ActionBrowseWebsite send
\* none when their slot is unset or empty; the five handlers that do not
\* forward never send one.
C6_AtMostOneCall ==
    /\ Len(calls) <= 1
    /\ (CallFailed \/ BadBody) => Len(calls) = 1
    /\ (lastRun.action \in {"action_create_task", "action_browse_website"}
          /\ ~Truthy(lastRun.read)) => (calls = <<>> /\ http = NoCall)
    /\ lastRun.action \in NeverCalling => (calls = <<>> /\ http = NoCall)

\* ActionCreateTask ran with its slot set and the orchestrator answered non-OK
C6_Witness ==
    /\ lastRun.action = "action_create_task"
    /\ Truthy(lastRun.read)
    /\ http.kind = "response" /\ ~http.ok
    /\ Len(calls) = 1

ToggledSlot == IF lastRun.action = "action_toggle_conversation_mode"
               THEN "conversation_mode" ELSE "auto_speak"

\* a toggle returns one SlotSet of the negated slot value and says nothing;
\* from an unset slot the slot becomes True
C10_ToggleResult ==
    lastRun.action \in Toggles =>
        /\ outcome = "returned"
        /\ messages = <<>>
        /\ events = <<SlotSet(ToggledSlot, BoolV(~Truthy(lastRun.read)))>>
        /\ slots[ToggledSlot] = events[1].value
        /\ lastRun.read = NoneV => slots[ToggledSlot] = BoolV(TRUE)

\* the second of two consecutive runs of a toggle, the first of which read a
\* boolean, leaves the slot at the value the first one read
C10_TwiceRestores ==
    (/\ lastRun.action \in Toggles
     /\ lastRun'.action = lastRun.action
     /\ lastRun.read.t = "bool")
        => slots'[ToggledSlot] = lastRun.read

\* C10: ActionToggleConversationMode and ActionToggleAutoSpeak return exactly
\* one SlotSet event whose value is the negation of the current slot value and
\* emit no message; applied twice in sequence from a boolean they restore the
\* value, and from an unset slot the first application sets True.
C10_Toggle == []C10_ToggleResult /\ [][C10_TwiceRestores]_vars

\* conversation_mode was False, was toggled to True and toggled again to False
C10_Witness ==
    /\ lastRun.action = "action_toggle_conversation_mode"
    /\ lastRun.streak = 2
    /\ lastRun.read = BoolV(TRUE)
    /\ slots["conversation_mode"] = BoolV(FALSE)
    /\ events = <<SlotSet("conversation_mode", BoolV(FALSE))>>

Browsed == lastRun.action = "action_browse_website" /\ Truthy(lastRun.read)

HasProtocol(url) == StartsWith(url, PROTOCOL_HTTP) \/ StartsWith(url, PROTOCOL_HTTPS)

\* the url of the request the last run sent to the browser-agent API
SentUrl == calls[1].json.d.url.s

\* the url forwarded and shown starts with a protocol; a slot value that has one
\* is forwarded unchanged, any other with 'https://' before it; normalising the
\* forwarded url again changes nothing
C11_Forwarded ==
    Browsed =>
        /\ outcome = "returned"
        /\ Len(calls) = 1
        /\ calls[1].url = BROWSER_NAVIGATE
        /\ DOMAIN calls[1].json.d = {"url"}
        /\ HasProtocol(SentUrl)
        /\ HasProtocol(lastRun.read.s) => SentUrl = lastRun.read.s
        /\ ~HasProtocol(lastRun.read.s) => SentUrl = PROTOCOL_HTTPS \o lastRun.read.s
        /\ EnsureProtocol(SentUrl) = SentUrl
        /\ (http.kind = "response" /\ http.ok) =>
              /\ Len(messages) = 1
              /\ SubSeq(messages[1].s, 2, Len(SentUrl) + 1) = SentUrl
              /\ HasProtocol(SubSeq(messages[1].s, 2, Len(messages[1].s)))

\* a run that finds in the slot the url the run before it forwarded forwards it as it is
C11_SecondRunUnchanged ==
    (/\ Browsed
     /\ lastRun'.action = "action_browse_website"
     /\ lastRun'.read = calls[1].json.d.url)
        => (calls' # <<>> /\ calls'[1].json.d.url = calls[1].json.d.url)

\* C11: ActionBrowseWebsite normalises the URL before forwarding it: the url
\* sent to the browser-agent API and shown in the success reply starts with
\* 'http://' or 'https://'; a slot value with one of these prefixes is
\* forwarded unchanged, any other non-empty value with 'https://' prepended;
\* normalising twice gives the same as normalising once.
C11_Normalised == []C11_Forwarded /\ [][C11_SecondRunUnchanged]_vars

\* the slot held 'a', the browser agent answered OK: 'https://a' was sent and shown;
\* the run before it was a run of ActionBrowseWebsite too
C11_Witness ==
    /\ lastRun.action = "action_browse_website"
    /\ lastRun.streak = 2
    /\ lastRun.read = Str(<<"a">>)
    /\ http.kind = "response" /\ http.ok
    /\ SentUrl = PROTOCOL_HTTPS \o <<"a">>
    /\ messages[1].s[1] = ":globe: I've opened "

(***************************************************************************)
(* Claims about the deployment script (checked under DeploySpec and        *)
(* DeployFairSpec)                                                         *)
(***************************************************************************)
InLog(e) == \E i \in DOMAIN log : log[i] = e

IsBegin(e) == e.ev = "begin"
IsPip(e) == e.ev = "pip"
IsDownload(e) == e.ev = "op" /\ e.op.kind = "download"

\* the step that was running when log[i] was written: the last one begun before i
RECURSIVE RunningAt(_)
RunningAt(i) ==
    IF i = 0 THEN "none"
    ELSE IF IsBegin(log[i]) THEN log[i].step
    ELSE RunningAt(i - 1)

\* the steps begun so far are the first steps of STEPS, in its order
BeginsInOrder ==
    LET begins == SelectSeq(log, IsBegin)
    IN /\ Len(begins) <= Len(STEPS)
       /\ \A k \in DOMAIN begins : begins[k].step = STEPS[k]

\* a step begins only when the previous one has returned or its failure was logged,
\* and whatever a step does is done while it is the running step
OneStepAtATime ==
    \A i \in DOMAIN log :
        /\ (IsBegin(log[i]) /\ log[i].step # STEPS[1]) =>
              \E j \in 1..(i - 1) :
                  /\ log[j] \in {Finished(RunningAt(i - 1)), LoggedError(RunningAt(i - 1))}
                  /\ NextStep(RunningAt(i - 1)) = log[i].step
        /\ log[i].ev = "op" => RunningAt(i) = log[i].step
        /\ IsPip(log[i]) => RunningAt(i) = "install_dependencies"

\* pip is run for the entries of dependencies one after the other, in list order
DependenciesInListOrder ==
    LET pips == SelectSeq(log, IsPip)
    IN /\ Len(pips) <= Len(dependencies)
       /\ \A n \in DOMAIN pips : pips[n].dep = dependencies[n]

\* before a download starts, every entry of dependencies was installed successfully
NoDownloadBeforeInstalled ==
    \A i \in DOMAIN log :
        IsDownload(log[i]) =>
            \A n \in DOMAIN dependencies :
                \E j \in 1..(i - 1) : log[j] = Pip(dependencies[n], TRUE)

\* C8: deploy_all runs install_dependencies, deploy_qwen_vl, deploy_ocr_stack,
\* deploy_edge_models, create_unified_api strictly in this order, each starting
\* only after the previous one has finished or failed; the dependencies are
\* installed one at a time in list order; no checkpoint download starts before
\* every dependency has been installed successfully.
C8_Sequential ==
    /\ BeginsInOrder
    /\ OneStepAtATime
    /\ DependenciesInListOrder
    /\ NoDownloadBeforeInstalled

\* the whole deployment ran, the Qwen step having failed on the way
C8_Witness ==
    /\ pc = "done"
    /\ InLog(LoggedError("deploy_qwen_vl"))
    /\ InLog(Did("deploy_ocr_stack", Download("PaddleOCR")))
    /\ api_written

InstallSucceeded == InLog(Finished("install_dependencies"))

PipFailed == \E n \in DOMAIN dependencies : InLog(Pip(dependencies[n], FALSE))

\* create_unified_api was called and has run
ApiExecuted ==
    /\ InLog(Begin("create_unified_api"))
    /\ pc # "create_unified_api"

\* deploy_all has moved past step st
Left(st) == InLog(Begin(NextStep(st)))

Completed(st) ==
    \A k \in DOMAIN Operations(st, gpu_available) :
        InLog(Did(st, Operations(st, gpu_available)[k]))

C9_Safety ==
    /\ \A st \in MODEL_STEPS :
          /\ ~InLog(Uncaught(st))
          /\ Left(st) => (Completed(st) \/ InLog(LoggedError(st)))
          /\ InLog(LoggedError(st)) => Left(st)
    /\ ApiExecuted => \A st \in MODEL_STEPS : InLog(Begin(st))
    /\ PipFailed =>
          /\ pc = "aborted"
          /\ ~api_written
          /\ \A st \in MODEL_STEPS \cup {"create_unified_api"} : ~InLog(Begin(st))

\* C9: once install_dependencies has succeeded, a failure of any of the three
\* model steps is logged and does not stop the later steps: each of the three
\* is attempted and create_unified_api is eventually executed; a failure of
\* any single dependency install aborts deploy_all before any model step and
\* before the API file is written.
C9_FailuresDoNotStop == []C9_Safety /\ (InstallSucceeded ~> ApiExecuted)

\* all three model steps failed and vision_api.py was written all the same
C9_Witness ==
    /\ \A st \in MODEL_STEPS : InLog(LoggedError(st))
    /\ pc = "done"
    /\ api_written

\* the install of the fifth dependency failed
C9_AbortWitness ==
    /\ InLog(Pip(dependencies[5], FALSE))
    /\ pc = "aborted"

====
